---- MODULE Spec2Model ----
(***************************************************************************)
(* Model of zimg's depth conversion filter ConvertToFloat                  *)
(* (src/Depth/depth_convert2.cpp): kernel selection, construction,         *)
(* capability queries and per-tile execution over byte-addressed rows.     *)
(***************************************************************************)
EXTENDS Integers, Sequences, FiniteSets, TLC

VARIABLES outcome, via, filter, req, buf, aliased, task

vars == <<outcome, via, filter, req, buf, aliased, task>>

(* ------------------------------ bounds -------------------------------- *)

\* image width in pixels of the widest image a caller sets up
Width == 18

\* image height in rows
Height == 2

\* longest column range one process call is given
MaxTile == 1

(* ------------------------- pixel formats ------------------------------ *)

ALIGNMENT == 32

PixelTypes == {"BYTE", "WORD", "HALF", "FLOAT"}

pixel_size(type) ==
  CASE type = "BYTE" -> 1
    [] type = "WORD" -> 2
    [] type = "HALF" -> 2
    [] type = "FLOAT" -> 4

PixelFormat(type, depth, fullrange, chroma) ==
  [type |-> type, depth |-> depth, fullrange |-> fullrange, chroma |-> chroma]

\* the formats callers pass: every pixel type in two variants that differ
\* in depth, range flag or chroma flag
Formats ==
  { PixelFormat("BYTE", 8, TRUE, FALSE), PixelFormat("BYTE", 8, FALSE, TRUE),
    PixelFormat("WORD", 10, FALSE, FALSE), PixelFormat("WORD", 16, TRUE, FALSE),
    PixelFormat("HALF", 16, FALSE, FALSE), PixelFormat("HALF", 16, TRUE, TRUE),
    PixelFormat("FLOAT", 32, FALSE, FALSE), PixelFormat("FLOAT", 16, FALSE, FALSE) }

\* operator== of PixelFormat: a value type compared field by field
PixelFormatEq(a, b) ==
  /\ a.type = b.type
  /\ a.depth = b.depth
  /\ a.fullrange = b.fullrange
  /\ a.chroma = b.chroma

mod(x, n) == x - (x % n)

align(x, n) == IF x % n = 0 THEN x ELSE x + n - (x % n)

Pow2(n) == 2 ^ n

integer_offset(bits, fullrange, chroma) ==
  IF chroma THEN Pow2(bits - 1)
  ELSE IF ~fullrange THEN 16 * Pow2(bits - 8)
  ELSE 0

integer_range(bits, fullrange, chroma) ==
  IF ~fullrange /\ chroma THEN 224 * Pow2(bits - 8)
  ELSE IF ~fullrange THEN 219 * Pow2(bits - 8)
  ELSE Pow2(bits) - 1

(* ---------------------- exact rational arithmetic --------------------- *)

RECURSIVE Gcd(_, _)
Gcd(a, b) == IF b = 0 THEN a ELSE Gcd(b, a % b)

Abs(x) == IF x < 0 THEN -x ELSE x

\* the rational n/d in lowest terms, d > 0
Rat(n, d) ==
  LET g == Gcd(Abs(n), Abs(d))
      s == IF d < 0 THEN -1 ELSE 1
  IN  <<(s * n) \div g, (s * d) \div g>>

RatMul(a, b) == Rat(a[1] * b[1], a[2] * b[2])

RatAdd(a, b) == Rat(a[1] * b[2] + b[1] * a[2], a[2] * b[2])

(* --------------------------- kernel selection ------------------------- *)

Null == "nullptr"

ConvertFuncs == {"integer_to_float_uint8_t", "integer_to_float_uint16_t"}

F16cFuncs == {"half_to_float_n", "float_to_half_n"}

Thrown(what) == [threw |-> TRUE, what |-> what, func |-> Null]

\* the selector with WORD sources given the 8-bit kernel
select_depth_convert_func_WordAsByte(format_in, format_out) ==
  LET type_in == IF format_in.type = "HALF" THEN "FLOAT" ELSE format_in.type
      type_out == IF format_out.type = "HALF" THEN "FLOAT" ELSE format_out.type
  IN  IF type_in \in {"BYTE", "WORD"} /\ type_out = "FLOAT"
        THEN [threw |-> FALSE, what |-> "", func |-> "integer_to_float_uint8_t"]
      ELSE IF type_in = "FLOAT" /\ type_out = "FLOAT"
        THEN [threw |-> FALSE, what |-> "", func |-> Null]
      ELSE Thrown("no conversion between pixel types")

select_depth_convert_func(format_in, format_out) ==
  LET type_in == IF format_in.type = "HALF" THEN "FLOAT" ELSE format_in.type
      type_out == IF format_out.type = "HALF" THEN "FLOAT" ELSE format_out.type
  IN  IF type_in = "BYTE" /\ type_out = "FLOAT"
        THEN [threw |-> FALSE, what |-> "", func |-> "integer_to_float_uint8_t"]
      ELSE IF type_in = "WORD" /\ type_out = "FLOAT"
        THEN [threw |-> FALSE, what |-> "", func |-> "integer_to_float_uint16_t"]
      ELSE IF type_in = "FLOAT" /\ type_out = "FLOAT"
        THEN [threw |-> FALSE, what |-> "", func |-> Null]
      ELSE Thrown("no conversion between pixel types")

(* ------------------------------ the filter ---------------------------- *)

NoFilter ==
  [m_func |-> Null, m_f16c |-> Null, m_pixel_in |-> "BYTE", m_pixel_out |-> "BYTE",
   m_scale |-> <<0, 1>>, m_offset |-> <<0, 1>>, m_width |-> 0, m_height |-> 0]

Failed(what) == [outcome |-> "InternalError", what |-> what, filter |-> NoFilter]

\* the constructor without its check of the output type
ConvertToFloat_NoOutputCheck(func, f16c, width, height, pixel_in, pixel_out) ==
  IF PixelFormatEq(pixel_in, pixel_out)
    THEN Failed("cannot perform no-op conversion")
  ELSE IF f16c # Null /\ pixel_in.type # "HALF" /\ pixel_out.type # "HALF"
    THEN Failed("cannot provide f16c function for non-HALF types")
  ELSE
    LET is_integer == pixel_in.type = "BYTE" \/ pixel_in.type = "WORD"
        range == IF is_integer
                   THEN integer_range(pixel_in.depth, pixel_in.fullrange, pixel_in.chroma)
                   ELSE 1
        offset == IF is_integer
                    THEN integer_offset(pixel_in.depth, pixel_in.fullrange, pixel_in.chroma)
                    ELSE 0
    IN  [outcome |-> "ok", what |-> "",
         filter |-> [m_func |-> func, m_f16c |-> f16c,
                     m_pixel_in |-> pixel_in.type, m_pixel_out |-> pixel_out.type,
                     m_scale |-> Rat(1, range),
                     m_offset |-> RatMul(<<-offset, 1>>, Rat(1, range)),
                     m_width |-> width, m_height |-> height]]

\* the constructor: the member initialisers, the three checks, the constants
ConvertToFloat(func, f16c, width, height, pixel_in, pixel_out) ==
  IF PixelFormatEq(pixel_in, pixel_out)
    THEN Failed("cannot perform no-op conversion")
  ELSE IF f16c # Null /\ pixel_in.type # "HALF" /\ pixel_out.type # "HALF"
    THEN Failed("cannot provide f16c function for non-HALF types")
  ELSE IF pixel_out.type # "HALF" /\ pixel_out.type # "FLOAT"
    THEN Failed("DepthConvert only converts to floating point types")
  ELSE
    LET is_integer == pixel_in.type = "BYTE" \/ pixel_in.type = "WORD"
        range == IF is_integer
                   THEN integer_range(pixel_in.depth, pixel_in.fullrange, pixel_in.chroma)
                   ELSE 1
        offset == IF is_integer
                    THEN integer_offset(pixel_in.depth, pixel_in.fullrange, pixel_in.chroma)
                    ELSE 0
    IN  [outcome |-> "ok", what |-> "",
         filter |-> [m_func |-> func, m_f16c |-> f16c,
                     m_pixel_in |-> pixel_in.type, m_pixel_out |-> pixel_out.type,
                     m_scale |-> Rat(1, range),
                     m_offset |-> RatMul(<<-offset, 1>>, Rat(1, range)),
                     m_width |-> width, m_height |-> height]]

\* the f16c kernel the factory picks
SelectF16c(pixel_in, pixel_out) ==
  LET needs_f16c == pixel_in.type = "HALF" \/ pixel_out.type = "HALF"
      f1 == IF needs_f16c /\ pixel_in.type = "HALF" THEN "half_to_float_n" ELSE Null
      f2 == IF needs_f16c /\ f1 = Null /\ pixel_out.type = "HALF"
              THEN "float_to_half_n" ELSE f1
  IN  f2

create_convert_to_float(width, height, pixel_in, pixel_out, cpu) ==
  LET sel == select_depth_convert_func(pixel_in, pixel_out)
  IN  IF sel.threw THEN Failed(sel.what)
      ELSE ConvertToFloat(sel.func, SelectF16c(pixel_in, pixel_out),
                          width, height, pixel_in, pixel_out)

get_flags(f) ==
  [same_row |-> TRUE,
   in_place |-> (pixel_size(f.m_pixel_in) = pixel_size(f.m_pixel_out))]

PixelAlign(f) ==
  LET a == pixel_size(f.m_pixel_in)
      b == pixel_size(f.m_pixel_out)
  IN  ALIGNMENT \div (IF a < b THEN a ELSE b)

\* get_tmp_size sized to the requested columns alone
get_tmp_size_Unaligned(f, left, right) ==
  IF f.m_func # Null /\ f.m_f16c # Null THEN (right - left) * 4 ELSE 0

get_tmp_size(f, left, right) ==
  IF f.m_func # Null /\ f.m_f16c # Null
    THEN (align(right, PixelAlign(f)) - mod(left, PixelAlign(f))) * 4
    ELSE 0

(* ------------------------- pixel values and memory -------------------- *)

\* a sample: k names its representation, n/d its value (integer codes and
\* half codes have d = 1)
Scalar(k, n, d) == [k |-> k, n |-> n, d |-> d]

\* bytes that do not hold a whole value of the type they are read as
Junk == Scalar("junk", 0, 1)

\* bytes nobody has written yet
Unwritten == Scalar("unwritten", 0, 1)

Cell(v, p) == [v |-> v, p |-> p]

\* the opaque numeric primitives: decoding a half code, encoding a float
half_to_float(x) ==
  IF x.k = "f16" THEN Scalar("h2f", x.n, x.d) ELSE Junk

float_to_half(x) ==
  IF x.k = "f32" THEN Scalar("f2h", x.n, x.d) ELSE Junk

\* the lambda of integer_to_float without its offset
integer_to_float_NoOffset(x, scale, offset) ==
  IF x.k \in {"u8", "u16"}
    THEN LET y == RatMul(<<x.n, 1>>, scale)
         IN  Scalar("f32", y[1], y[2])
    ELSE Junk

\* the lambda of integer_to_float: static_cast<float>(x) * scale + offset
integer_to_float(x, scale, offset) ==
  IF x.k \in {"u8", "u16"}
    THEN LET y == RatAdd(RatMul(<<x.n, 1>>, scale), offset)
         IN  Scalar("f32", y[1], y[2])
    ELSE Junk

\* sizeof(T) of the element type a kernel reads and of the one it writes
KernelIn(kernel) ==
  CASE kernel = "integer_to_float_uint8_t" -> 1
    [] kernel = "integer_to_float_uint16_t" -> 2
    [] kernel = "half_to_float_n" -> 2
    [] kernel = "float_to_half_n" -> 4

KernelOut(kernel) == IF kernel = "float_to_half_n" THEN 2 ELSE 4

\* the representations a T read by the kernel can hold
KernelKinds(kernel) ==
  CASE kernel = "integer_to_float_uint8_t" -> {"u8"}
    [] kernel = "integer_to_float_uint16_t" -> {"u16"}
    [] kernel = "half_to_float_n" -> {"f16", "f2h"}
    [] kernel = "float_to_half_n" -> {"f32", "h2f"}

KernelApply(kernel, x, scale, offset) ==
  CASE kernel \in ConvertFuncs -> integer_to_float(x, scale, offset)
    [] kernel = "half_to_float_n" -> half_to_float(x)
    [] kernel = "float_to_half_n" -> float_to_half(x)

Stride(type) == align(Width * pixel_size(type), ALIGNMENT)

BufLen(type) == Height * Stride(type)

InBounds(arr, off, size) == off >= 0 /\ off + size <= BufLen(arr.type)

\* *reinterpret_cast<const T *>(base + off)
ReadPix(arr, off, size, kinds) ==
  LET c == arr.bytes[off]
  IN  IF /\ \A p \in 0..(size - 1) : arr.bytes[off + p] = Cell(c.v, p)
         /\ c.v.k \in kinds
        THEN c.v ELSE Junk

\* *reinterpret_cast<T *>(base + off) = v
WritePix(arr, off, size, v) ==
  [arr EXCEPT !.bytes = [a \in DOMAIN arr.bytes |->
                           IF a \in off..(off + size - 1)
                             THEN Cell(v, a - off) ELSE arr.bytes[a]]]

\* the code stored at (row, column) of the source image
MaxCode(fmt) == IF fmt.type \in {"BYTE", "WORD"} THEN Pow2(fmt.depth) - 1 ELSE 3

SrcCode(fmt, i, c) == (((c + 2 * i) % 4) * MaxCode(fmt)) \div 3

SrcKind(type) ==
  CASE type = "BYTE" -> "u8"
    [] type = "WORD" -> "u16"
    [] type = "HALF" -> "f16"
    [] type = "FLOAT" -> "f32"

SrcPixel(fmt, i, c) == Scalar(SrcKind(fmt.type), SrcCode(fmt, i, c), 1)

\* a caller's image buffer of the given format: Height rows, Stride bytes
\* apart, Width pixels each, the rest of a row padding
SrcImage(fmt) ==
  LET sz == pixel_size(fmt.type)
      st == Stride(fmt.type)
  IN  [type |-> fmt.type,
       bytes |-> [a \in 0..(BufLen(fmt.type) - 1) |->
                    IF (a % st) < Width * sz
                      THEN Cell(SrcPixel(fmt, a \div st, (a % st) \div sz), (a % st) % sz)
                      ELSE Cell(Unwritten, 0)]]

DstImage(fmt) ==
  [type |-> fmt.type,
   bytes |-> [a \in 0..(BufLen(fmt.type) - 1) |-> Cell(Unwritten, 0)]]

NoImage == [type |-> "BYTE", bytes |-> <<>>]

NoBuf == [src |-> NoImage, dst |-> NoImage]

\* LineBuffer<char>{ buf }[i]
LineBuffer(type, i) == i * Stride(type)

(* ------------------------------ process ------------------------------- *)

Tasks == {1, 2}

IdleTask ==
  [pc |-> "idle", i |-> 0, left |-> 0, right |-> 0, src_line |-> 0, dst_line |-> 0,
   lo |-> 0, hi |-> 0, k |-> 0, tmp |-> <<>>, tmp_ok |-> TRUE, tmp_used |-> FALSE,
   ub |-> ""]

Running == {"func_tmp", "f16c_tmp", "func", "f16c"}

\* the scratch buffer a caller hands to process: get_tmp_size bytes of floats
TmpBuffer(f, left, right) ==
  [x \in 0..((get_tmp_size(f, left, right) \div 4) - 1) |-> Unwritten]

\* process without its right -= line_base
process_RightNotMoved(f, tmp, i, left, right, nullcall) ==
  LET pixel_align == PixelAlign(f)
      line_base == mod(left, pixel_align)
      branch == IF f.m_func # Null /\ f.m_f16c # Null THEN "func_tmp"
                ELSE IF f.m_func # Null THEN "func"
                ELSE IF f.m_f16c # Null THEN "f16c"
                ELSE nullcall
  IN  [pc |-> branch, i |-> i, left |-> left, right |-> right,
       src_line |-> LineBuffer(f.m_pixel_in, i) + pixel_size(f.m_pixel_in) * line_base,
       dst_line |-> LineBuffer(f.m_pixel_out, i) + pixel_size(f.m_pixel_out) * line_base,
       lo |-> left - line_base, hi |-> right, k |-> left - line_base,
       tmp |-> tmp, tmp_ok |-> TRUE, tmp_used |-> FALSE,
       ub |-> IF branch \in Running THEN "" ELSE "null call"]

\* process up to its dispatch: the row pointers, the moved range, the branch
\* taken. Calling the null m_f16c is undefined: nullcall is what the build
\* makes of it (the call faults, or returns having done nothing)
process(f, tmp, i, left, right, nullcall) ==
  LET pixel_align == PixelAlign(f)
      line_base == mod(left, pixel_align)
      branch == IF f.m_func # Null /\ f.m_f16c # Null THEN "func_tmp"
                ELSE IF f.m_func # Null THEN "func"
                ELSE IF f.m_f16c # Null THEN "f16c"
                ELSE nullcall
  IN  [pc |-> branch, i |-> i, left |-> left, right |-> right,
       src_line |-> LineBuffer(f.m_pixel_in, i) + pixel_size(f.m_pixel_in) * line_base,
       dst_line |-> LineBuffer(f.m_pixel_out, i) + pixel_size(f.m_pixel_out) * line_base,
       lo |-> left - line_base, hi |-> right - line_base, k |-> left - line_base,
       tmp |-> tmp, tmp_ok |-> TRUE, tmp_used |-> FALSE,
       ub |-> IF branch \in Running THEN "" ELSE "null call"]

DstOf(mem, al) == IF al THEN mem.src ELSE mem.dst

PutDst(mem, al, arr) == IF al THEN [mem EXCEPT !.src = arr] ELSE [mem EXCEPT !.dst = arr]

Fault(mem, tk, what) == [mem |-> mem, tk |-> [tk EXCEPT !.pc = "crashed", !.ub = what]]

\* one iteration of the std::transform of a kernel that reads the source row
\* and writes the destination row
DirectElem(f, mem, al, tk, kernel) ==
  LET off_in == tk.src_line + tk.k * KernelIn(kernel)
      off_out == tk.dst_line + tk.k * KernelOut(kernel)
  IN  IF ~InBounds(mem.src, off_in, KernelIn(kernel))
           \/ ~InBounds(DstOf(mem, al), off_out, KernelOut(kernel))
        THEN Fault(mem, tk, "out of bounds")
        ELSE LET x == ReadPix(mem.src, off_in, KernelIn(kernel), KernelKinds(kernel))
                 y == KernelApply(kernel, x, f.m_scale, f.m_offset)
             IN  [mem |-> PutDst(mem, al, WritePix(DstOf(mem, al), off_out, KernelOut(kernel), y)),
                  tk |-> [tk EXCEPT !.k = tk.k + 1]]

\* one iteration of m_func(src_line, tmp, ...)
FuncTmpElem(f, mem, al, tk) ==
  LET kernel == f.m_func
      off_in == tk.src_line + tk.k * KernelIn(kernel)
  IN  IF ~InBounds(mem.src, off_in, KernelIn(kernel))
        THEN Fault(mem, tk, "out of bounds")
      ELSE IF tk.k \notin DOMAIN tk.tmp
        THEN Fault(mem, [tk EXCEPT !.tmp_ok = FALSE, !.tmp_used = TRUE], "out of bounds")
      ELSE LET x == ReadPix(mem.src, off_in, KernelIn(kernel), KernelKinds(kernel))
               y == KernelApply(kernel, x, f.m_scale, f.m_offset)
           IN  [mem |-> mem,
                tk |-> [tk EXCEPT !.k = tk.k + 1, !.tmp[tk.k] = y, !.tmp_used = TRUE]]

\* one iteration of m_f16c(tmp, dst_line, ...): tmp holds floats
F16cTmpElem(f, mem, al, tk) ==
  LET kernel == f.m_f16c
      off_out == tk.dst_line + tk.k * KernelOut(kernel)
  IN  IF ~InBounds(DstOf(mem, al), off_out, KernelOut(kernel))
        THEN Fault(mem, tk, "out of bounds")
      ELSE IF tk.k \notin DOMAIN tk.tmp
        THEN Fault(mem, [tk EXCEPT !.tmp_ok = FALSE, !.tmp_used = TRUE], "out of bounds")
      ELSE LET x == IF kernel = "float_to_half_n" THEN tk.tmp[tk.k] ELSE Junk
               y == KernelApply(kernel, x, f.m_scale, f.m_offset)
           IN  [mem |-> PutDst(mem, al, WritePix(DstOf(mem, al), off_out, KernelOut(kernel), y)),
                tk |-> [tk EXCEPT !.k = tk.k + 1, !.tmp_used = TRUE,
                                  !.tmp_ok = tk.tmp_ok /\ tk.tmp[tk.k] # Unwritten]]

\* a kernel whose range is exhausted returns: m_func(src_line, tmp, ...) to
\* the call of m_f16c(tmp, dst_line, ...), any other kernel to process's end
Settle(tk) ==
  IF tk.pc \in Running /\ tk.k = tk.hi
    THEN IF tk.pc = "func_tmp" /\ tk.lo < tk.hi
           THEN [tk EXCEPT !.pc = "f16c_tmp", !.k = tk.lo]
           ELSE [tk EXCEPT !.pc = "done"]
    ELSE tk

\* the next iteration of the std::transform a running process call is in
Step(f, mem, al, tk) ==
  LET s == CASE tk.pc = "func_tmp" -> FuncTmpElem(f, mem, al, tk)
             [] tk.pc = "f16c_tmp" -> F16cTmpElem(f, mem, al, tk)
             [] tk.pc = "func" -> DirectElem(f, mem, al, tk, f.m_func)
             [] tk.pc = "f16c" -> DirectElem(f, mem, al, tk, f.m_f16c)
  IN  [mem |-> s.mem, tk |-> Settle(s.tk)]

RECURSIVE RunTask(_, _, _, _)
\* a process call run from tk to its end with nothing in between
RunTask(f, mem, al, tk) ==
  IF tk.pc \notin Running THEN [mem |-> mem, tk |-> tk]
  ELSE LET s == Step(f, mem, al, tk) IN RunTask(f, s.mem, al, s.tk)

\* the memory one whole process call on [left, right) of row i leaves
RunTile(f, mem, al, i, left, right) ==
  RunTask(f, mem, al,
          Settle(process(f, TmpBuffer(f, left, right), i, left, right, "crashed"))).mem

(* ------------------------------ actions ------------------------------- *)

CPUs == {"NONE", "X86_AVX2"}

NoReq ==
  [op |-> "none", func |-> Null, f16c |-> Null, width |-> 0, height |-> 0,
   pixel_in |-> PixelFormat("BYTE", 8, TRUE, FALSE),
   pixel_out |-> PixelFormat("BYTE", 8, TRUE, FALSE), cpu |-> "NONE"]

Init ==
  /\ outcome = "none"
  /\ via = "none"
  /\ filter = NoFilter
  /\ req = NoReq
  /\ buf = NoBuf
  /\ aliased = FALSE
  /\ task = [t \in Tasks |-> IdleTask]

\* the scheduler sets a pipeline up, once it has no image buffers in use:
\* the factory is called, and the filter there was before is gone
Create(width, height, pixel_in, pixel_out, cpu) ==
  LET r == create_convert_to_float(width, height, pixel_in, pixel_out, cpu)
  IN  /\ buf = NoBuf
      /\ outcome' = r.outcome
      /\ filter' = r.filter
      /\ via' = "factory"
      /\ req' = [op |-> "create", func |-> Null, f16c |-> Null, width |-> width,
                 height |-> height, pixel_in |-> pixel_in, pixel_out |-> pixel_out,
                 cpu |-> cpu]
      /\ buf' = NoBuf
      /\ aliased' = FALSE
      /\ task' = [t \in Tasks |-> IdleTask]

\* the constructor called with kernels of the caller's choosing
Construct(func, f16c, width, height, pixel_in, pixel_out) ==
  LET r == ConvertToFloat(func, f16c, width, height, pixel_in, pixel_out)
  IN  /\ buf = NoBuf
      /\ outcome' = r.outcome
      /\ filter' = r.filter
      /\ via' = "constructor"
      /\ req' = [op |-> "construct", func |-> func, f16c |-> f16c, width |-> width,
                 height |-> height, pixel_in |-> pixel_in, pixel_out |-> pixel_out,
                 cpu |-> "NONE"]
      /\ buf' = NoBuf
      /\ aliased' = FALSE
      /\ task' = [t \in Tasks |-> IdleTask]

\* the scheduler allocates the image buffers of a factory-built filter; it
\* reuses the source as the destination only if the in_place flag allows it
Alloc(al) ==
  /\ outcome = "ok"
  /\ via = "factory"
  /\ buf = NoBuf
  /\ al => get_flags(filter).in_place
  /\ buf' = [src |-> SrcImage(req.pixel_in),
             dst |-> IF al THEN NoImage ELSE DstImage(req.pixel_out)]
  /\ aliased' = al
  /\ UNCHANGED <<outcome, via, filter, req, task>>

\* the columns a tile may start at: around the first alignment boundary
Lefts(f) == {0, 1, PixelAlign(f) - 1, PixelAlign(f)} \cap 0..f.m_width

Overlap(a, b) == a.i = b.i /\ a.left < b.right /\ b.left < a.right

\* the scheduler calls process(i, left, right) with a scratch buffer of
\* get_tmp_size(left, right) bytes; it issues no two overlapping tiles at once
Start(t, i, left, right, nullcall) ==
  /\ outcome = "ok"
  /\ via = "factory"
  /\ buf # NoBuf
  /\ task[t].pc = "idle"
  /\ \A u \in Tasks : u < t => task[u].pc # "idle"
  /\ i < filter.m_height
  /\ left <= right /\ right <= filter.m_width
  /\ \A u \in Tasks \ {t} :
       task[u].pc \in Running => ~Overlap(task[u], [i |-> i, left |-> left, right |-> right])
  /\ task' = [task EXCEPT ![t] =
                Settle(process(filter, TmpBuffer(filter, left, right), i, left, right, nullcall))]
  /\ UNCHANGED <<outcome, via, filter, req, buf, aliased>>

\* one element of the kernel a call is in; after the last one the kernel
\* returns
Elem(t) ==
  /\ task[t].pc \in Running
  /\ LET s == Step(filter, buf, aliased, task[t])
     IN  /\ buf' = s.mem
         /\ task' = [task EXCEPT ![t] = s.tk]
  /\ UNCHANGED <<outcome, via, filter, req, aliased>>

Next ==
  \/ \E pixel_in \in Formats, pixel_out \in Formats :
       Create(Width, Height, pixel_in, pixel_out, "NONE")
  \/ \E func \in ConvertFuncs \cup {Null}, f16c \in F16cFuncs \cup {Null},
        pixel_in \in Formats, pixel_out \in Formats :
       Construct(func, f16c, Width, Height, pixel_in, pixel_out)
  \/ \E al \in BOOLEAN : Alloc(al)
  \/ \E t \in Tasks, i \in 0..(Height - 1), left \in Lefts(filter),
        len \in 0..MaxTile, nullcall \in {"crashed", "done"} :
       Start(t, i, left, left + len, nullcall)
  \/ \E t \in Tasks : Elem(t)

Spec == Init /\ [][Next]_vars

\* construction alone, over every width, height and CPU class
NextSel ==
  \/ \E width \in {Width - 1, Width}, height \in {Height - 1, Height}, pixel_in \in Formats,
        pixel_out \in Formats, cpu \in CPUs :
       Create(width, height, pixel_in, pixel_out, cpu)
  \/ \E func \in ConvertFuncs \cup {Null}, f16c \in F16cFuncs \cup {Null},
        pixel_in \in Formats, pixel_out \in Formats :
       Construct(func, f16c, Width, Height, pixel_in, pixel_out)

SpecSel == Init /\ [][NextSel]_vars

(* ------------------------------ properties ---------------------------- *)

Started(tk) == tk.pc # "idle"

\* the images as the scheduler allocated them
Mem0 == [src |-> SrcImage(req.pixel_in), dst |-> DstImage(req.pixel_out)]

\* the byte offset of column c of row i in an image of the given type
PixOff(type, i, c) == LineBuffer(type, i) + c * pixel_size(type)

C2_ConstructionFails ==
  /\ ( /\ req.op # "none"
       /\ \/ PixelFormatEq(req.pixel_in, req.pixel_out)
          \/ /\ req.f16c # Null
             /\ req.pixel_in.type # "HALF" /\ req.pixel_out.type # "HALF"
          \/ req.pixel_out.type \notin {"HALF", "FLOAT"} )
     => (outcome = "InternalError" /\ filter = NoFilter)
  /\ (req.op = "create" /\ req.pixel_in.type = "HALF" /\ req.pixel_out.type = "WORD")
     => (outcome = "InternalError" /\ filter = NoFilter)

C2_Witness ==
  /\ req.op = "construct"
  /\ req.func = Null /\ req.f16c = "half_to_float_n"
  /\ req.pixel_in.type = "HALF" /\ req.pixel_out.type = "WORD"
  /\ outcome = "InternalError"

C4_KernelsByTypePair ==
  req.op = "create" =>
    LET tin == req.pixel_in.type
        tout == req.pixel_out.type
    IN  /\ tout \in {"BYTE", "WORD"} => outcome = "InternalError"
        /\ outcome = "ok" =>
             /\ filter.m_func = (CASE tin = "BYTE" -> "integer_to_float_uint8_t"
                                   [] tin = "WORD" -> "integer_to_float_uint16_t"
                                   [] OTHER -> Null)
             /\ filter.m_f16c = (CASE tin = "HALF" -> "half_to_float_n"
                                   [] tin # "HALF" /\ tout = "HALF" -> "float_to_half_n"
                                   [] OTHER -> Null)

C4_Witness ==
  /\ req.op = "create" /\ outcome = "ok"
  /\ req.cpu = "X86_AVX2" /\ req.width < Width /\ req.height < Height
  /\ req.pixel_in.type = "WORD" /\ req.pixel_out.type = "HALF"
  /\ req.pixel_in.depth = 10
  /\ filter.m_func = "integer_to_float_uint16_t" /\ filter.m_f16c = "float_to_half_n"

\* byte a is one of the output-format pixels at columns [left, right) of row i
InTile(type, i, left, right, a) ==
  a >= PixOff(type, i, left) /\ a < PixOff(type, i, right)

Normalized(fmt, x) ==
  Rat(x - integer_offset(fmt.depth, fmt.fullrange, fmt.chroma),
      integer_range(fmt.depth, fmt.fullrange, fmt.chroma))

\* C7: for an integer input scale = 1/range and offset = -input_offset/range,
\* and a finished call has stored (x - input_offset)/range for every code x
\* of its columns (as a float, or as the half made of that float); an 8-bit
\* full-range non-chroma source maps 0, 85, 170, 255 to 0, 1/3, 2/3, 1. For
\* another input scale = 1 and offset = 0.
C7_AffineConstants ==
  outcome = "ok" =>
    LET fmt == req.pixel_in
        is_integer == fmt.type \in {"BYTE", "WORD"}
        range == integer_range(fmt.depth, fmt.fullrange, fmt.chroma)
        input_offset == integer_offset(fmt.depth, fmt.fullrange, fmt.chroma)
    IN  /\ ~is_integer => (filter.m_scale = <<1, 1>> /\ filter.m_offset = <<0, 1>>)
        /\ is_integer =>
             /\ filter.m_scale[1] * range = filter.m_scale[2]
             /\ filter.m_offset[1] * range = (-input_offset) * filter.m_offset[2]
        /\ (is_integer /\ via = "factory" /\ buf # NoBuf /\ ~aliased) =>
             \A t \in Tasks : task[t].pc = "done" =>
               \A c \in task[t].left..(task[t].right - 1) :
                 LET x == SrcCode(fmt, task[t].i, c)
                     want == Normalized(fmt, x)
                     osz == pixel_size(filter.m_pixel_out)
                     got == ReadPix(buf.dst, PixOff(filter.m_pixel_out, task[t].i, c), osz,
                                    {"f32", "f2h"})
                 IN  /\ got.k = (IF filter.m_pixel_out = "HALF" THEN "f2h" ELSE "f32")
                     /\ <<got.n, got.d>> = want
                     /\ (x = 0) => <<got.n, got.d>> = filter.m_offset
                     /\ x = MaxCode(fmt) =>
                          <<got.n, got.d>> = RatAdd(RatMul(<<x, 1>>, filter.m_scale), filter.m_offset)
                     /\ fmt = PixelFormat("BYTE", 8, TRUE, FALSE) =>
                          <<got.n, got.d>> = (CASE x = 0 -> <<0, 1>>
                                                [] x = 85 -> <<1, 3>>
                                                [] x = 170 -> <<2, 3>>
                                                [] x = 255 -> <<1, 1>>)

C7_Witness ==
  /\ outcome = "ok" /\ via = "factory" /\ buf # NoBuf
  /\ req.pixel_in = PixelFormat("BYTE", 8, TRUE, FALSE)
  /\ filter.m_pixel_out = "FLOAT"
  /\ task[1].pc = "done" /\ task[1].left < task[1].right
  /\ SrcCode(req.pixel_in, task[1].i, task[1].left) = 255
  /\ ReadPix(buf.dst, PixOff("FLOAT", task[1].i, task[1].left), 4, {"f32"}) = Scalar("f32", 1, 1)
  /\ task[2].pc = "done" /\ task[2].left < task[2].right
  /\ SrcCode(req.pixel_in, task[2].i, task[2].left) = 85
  /\ ReadPix(buf.dst, PixOff("FLOAT", task[2].i, task[2].left), 4, {"f32"}) = Scalar("f32", 1, 3)

\* byte a is one a call has to have written so far: its columns up to the
\* one its final kernel is at
DoneByte(f, tk, a) ==
  /\ tk.pc \notin {"idle", "func_tmp", "crashed"}
  /\ InTile(f.m_pixel_out, tk.i, tk.left,
            IF tk.pc = "done" THEN tk.right ELSE tk.left + (tk.k - tk.lo), a)

\* the sample the filter is to make of a source pixel
Converted(f, x) ==
  LET y == IF f.m_func # Null THEN integer_to_float(x, f.m_scale, f.m_offset) ELSE x
  IN  CASE f.m_f16c = "half_to_float_n" -> half_to_float(y)
        [] f.m_f16c = "float_to_half_n" -> float_to_half(y)
        [] OTHER -> y

LineBase(f, tk) ==
  (tk.dst_line - LineBuffer(f.m_pixel_out, tk.i)) \div pixel_size(f.m_pixel_out)

\* C9 as stated: the range process hands the kernels is [left, right) with
\* left rounded down and right rounded up to pixel_align: it starts at index
\* zero of the advanced row pointers, ends on a multiple of pixel_align, and
\* holds [left, right).
C9_WidenedRange ==
  \A t \in Tasks : Started(task[t]) =>
    LET tk == task[t]
        base == LineBase(filter, tk)
    IN  /\ tk.lo = 0
        /\ (base + tk.hi) % PixelAlign(filter) = 0
        /\ base + tk.lo <= tk.left /\ tk.right <= base + tk.hi

\* C9 as the code has it: process rounds only left down, to line_base, a
\* multiple of pixel_align by which it advances both row pointers; the
\* kernels get [left - line_base, right - line_base), which is the requested
\* [left, right) itself and starts less than pixel_align past the pointers;
\* the range rounded at both ends is the one get_tmp_size sizes, and it holds
\* the range handed to the kernels.
C9_PointerAligned ==
  \A t \in Tasks : Started(task[t]) =>
    LET tk == task[t]
        pa == PixelAlign(filter)
        base == LineBase(filter, tk)
        isz == pixel_size(filter.m_pixel_in)
        osz == pixel_size(filter.m_pixel_out)
        mn == IF isz < osz THEN isz ELSE osz
    IN  /\ pa * mn = ALIGNMENT
        /\ base % pa = 0
        /\ base <= tk.left /\ tk.left - base < pa
        /\ tk.src_line = LineBuffer(filter.m_pixel_in, tk.i) + isz * base
        /\ tk.dst_line = LineBuffer(filter.m_pixel_out, tk.i) + osz * base
        /\ base + tk.lo = tk.left /\ base + tk.hi = tk.right
        /\ (filter.m_func # Null /\ filter.m_f16c # Null) =>
              /\ get_tmp_size(filter, tk.left, tk.right) % (4 * pa) = 0
              /\ tk.hi * 4 <= get_tmp_size(filter, tk.left, tk.right)

C9_Witness ==
  /\ task[1].pc = "done" /\ task[1].left = 16 /\ task[1].right = 17
  /\ LineBase(filter, task[1]) = 16 /\ task[1].lo = 0 /\ task[1].hi = 1
  /\ task[2].pc = "done" /\ task[2].left = 1 /\ task[2].right = 2
  /\ LineBase(filter, task[2]) = 0 /\ task[2].lo = 1 /\ task[2].hi = 2
  /\ PixelAlign(filter) = 16

\* C10: a scratch buffer has a size other than zero only for a filter with
\* both kernels, which has an integer input and a HALF output, and then
\* (align(right, pixel_align) - mod(left, pixel_align)) * sizeof(float)
\* bytes; such a call runs the integer kernel into scratch and then the
\* half-float kernel out of it, touching only floats inside the buffer and
\* reading only floats the first kernel wrote; any other call leaves scratch
\* alone.
C10_ScratchSafe ==
  \A t \in Tasks : Started(task[t]) =>
    LET tk == task[t]
        pa == PixelAlign(filter)
        size == get_tmp_size(filter, tk.left, tk.right)
        both == filter.m_func # Null /\ filter.m_f16c # Null
        up == IF tk.right % pa = 0 THEN tk.right ELSE (tk.right \div pa + 1) * pa
        down == (tk.left \div pa) * pa
    IN  /\ size # 0 =>
             /\ both
             /\ filter.m_pixel_in \in {"BYTE", "WORD"} /\ filter.m_pixel_out = "HALF"
        /\ both => size = (up - down) * 4
        /\ DOMAIN tk.tmp = 0..((size \div 4) - 1)
        /\ tk.tmp_ok
        /\ both =>
             /\ tk.pc \in {"func_tmp", "f16c_tmp", "done"} /\ tk.ub = ""
             /\ 0 <= tk.lo /\ tk.hi * 4 <= size
             /\ \A x \in DOMAIN tk.tmp :
                  (tk.tmp[x] # Unwritten) <=>
                     (x >= tk.lo /\ x < (IF tk.pc = "func_tmp" THEN tk.k ELSE tk.hi))
             /\ tk.pc = "done" => (tk.tmp_used <=> tk.lo < tk.hi)
        /\ ~both => (~tk.tmp_used /\ tk.pc \notin {"func_tmp", "f16c_tmp"})

C10_Witness ==
  /\ filter.m_func = "integer_to_float_uint8_t" /\ filter.m_f16c = "float_to_half_n"
  /\ task[1].pc = "done" /\ task[1].left = 1 /\ task[1].right = 2
  /\ task[1].tmp_used /\ task[1].tmp_ok
  /\ get_tmp_size(filter, 1, 2) = 128
  /\ task[1].tmp[1] # Unwritten /\ task[1].tmp[0] = Unwritten

====
